---------------------------- MODULE Spec2Model ----------------------------
(***************************************************************************)
(* Model of src/discrete_lab.py: bellman_ford, floyd_warshall and          *)
(* gnp_random_connected_graph.                                             *)
(*                                                                         *)
(* A graph is the triple (directed, num_nodes, weight): its nodes are      *)
(* 0..num_nodes-1 and weight maps every stored edge <<u, v>> to its        *)
(* integer weight.  weight holds an edge exactly as graph.edges() reports  *)
(* it: a DiGraph reports the arc u -> v, a Graph reports each undirected   *)
(* edge once, from the endpoint that was inserted first (u <= v when the   *)
(* nodes were inserted in ascending order, as add_nodes_from(range(n))     *)
(* does).                                                                  *)
(***************************************************************************)
EXTENDS Integers, Sequences, FiniteSets, TLC

VARIABLES
    directed,      \* input graph: DiGraph (TRUE) or Graph (FALSE)
    num_nodes,     \* input graph: len(graph.nodes())
    weight,        \* input graph: stored edge <<u, v>> |-> weight
    order,         \* input graph: the order graph.edges() enumerates the edges in
    source,        \* bellman_ford: the source argument
    distances,     \* bellman_ford: the distances dict
    bf_pass,       \* bellman_ford: outer-loop iterations completed
    bf_pc,         \* bellman_ford: "idle", "start", "relax", "returned", "raised"
    fw_dist,       \* floyd_warshall: the distances matrix
    fw_k,          \* floyd_warshall: next value of k
    fw_pc,         \* floyd_warshall: "idle", "start", "loop", "returned"
    g_directed,    \* generator: the directed argument
    g_n,           \* generator: num_of_nodes
    g_completeness,\* generator: completeness, in hundredths
    g_nodes,       \* generator: G's node set
    g_edges,       \* generator: G's stored edges
    g_weight,      \* generator: G's edge weights
    g_group,       \* generator: first coordinate of the next group of pairs
    g_comp,        \* generator: the pairs handed to add_edge on line 98 so far
    g_pc           \* generator: "idle", "start", "groups", "weights", "done"

graphVars == <<directed, num_nodes, weight, order>>
bfVars    == <<source, distances, bf_pass, bf_pc>>
fwVars    == <<fw_dist, fw_k, fw_pc>>
genVars   == <<g_directed, g_n, g_completeness, g_nodes, g_edges, g_weight,
               g_group, g_comp, g_pc>>
vars      == <<graphVars, bfVars, fwVars, genVars>>

---------------------------------------------------------------------------
(* Bounds of the model: the input graphs have at most MaxNodes nodes and,   *)
(* for bellman_ford (run under every enumeration order of the edges), at   *)
(* most MaxEdgesBF edges, for floyd_warshall at most MaxEdgesFW edges.     *)
MaxNodes == 3
MaxEdgesBF == 3
MaxEdgesFW == 4

\* Edge weights the input graphs draw from.
Weights == {-2, 1}

\* float('inf')
Inf == 1000000

Nodes(n) == 0 .. (n - 1)

---------------------------------------------------------------------------
(* Python float arithmetic on distances: inf + x = inf.                    *)
PlusWrap(a, b) == a + b
Plus(a, b) == IF a = Inf \/ b = Inf THEN Inf ELSE a + b

\* min(a, b)
Min2First(a, b) == a
Min2(a, b) == IF b < a THEN b ELSE a

---------------------------------------------------------------------------
(* The input graphs.                                                       *)
Slots(dir, n) ==
    IF dir THEN Nodes(n) \X Nodes(n)
           ELSE {p \in Nodes(n) \X Nodes(n) : p[1] <= p[2]}

EdgeSets(dir, n, maxE) ==
    {E \in SUBSET Slots(dir, n) : Cardinality(E) <= maxE}

GraphWeights(dir, n, maxE) ==
    UNION {[E -> Weights] : E \in EdgeSets(dir, n, maxE)}

\* The two graphs the specification gives as fixtures.
FixtureShortest == (<<0, 1>> :> 4) @@ (<<1, 2>> :> 3) @@ (<<0, 2>> :> 10)
FixtureNegCycle == (<<0, 1>> :> 1) @@ (<<1, 2>> :> -3) @@ (<<2, 0>> :> 1)
Fixtures == {FixtureShortest, FixtureNegCycle}

Perms(S) ==
    {s \in [1 .. Cardinality(S) -> S] :
        \A i, j \in 1 .. Cardinality(S) : i # j => s[i] # s[j]}

GraphInit(maxE) ==
    \/ /\ directed \in BOOLEAN
       /\ num_nodes \in 1 .. MaxNodes
       /\ weight \in GraphWeights(directed, num_nodes, maxE)
    \/ /\ directed = TRUE
       /\ num_nodes = 3
       /\ weight \in Fixtures

\* graph.edges(data='weight'): the (u, v, weight) triples in enumeration order
EdgeTriples(w, ord) ==
    [i \in 1 .. Len(ord) |-> <<ord[i][1], ord[i][2], w[ord[i]]>>]

---------------------------------------------------------------------------
(* bellman_ford                                                            *)

\* lines 24-25
InitialDistances(n, src) ==
    [v \in Nodes(n) \cup {src} |-> IF v = src THEN 0 ELSE Inf]

\* line 27: range(len(graph.nodes()) - 1)
PassCountShort(n) == n - 2
PassCount(n) == n - 1

\* lines 29 and 34: distances[u] + weight < distances[v]
Relaxable(d, e) == Plus(d[e[1]], e[3]) < d[e[2]]

\* lines 29-30
Relax(d, e) ==
    IF Relaxable(d, e) THEN [d EXCEPT ![e[2]] = Plus(d[e[1]], e[3])] ELSE d

\* lines 28-30: one pass over all the edges, in place
RECURSIVE RelaxAll(_, _)
RelaxAll(d, es) ==
    IF es = <<>> THEN d ELSE RelaxAll(Relax(d, Head(es)), Tail(es))

BFInit ==
    /\ bf_pc = "start"
    /\ distances' = InitialDistances(num_nodes, source)
    /\ bf_pass' = 0
    /\ bf_pc' = "relax"
    /\ UNCHANGED <<graphVars, source, fwVars, genVars>>

BFPass ==
    /\ bf_pc = "relax"
    /\ bf_pass < PassCount(num_nodes)
    /\ distances' = RelaxAll(distances, EdgeTriples(weight, order))
    /\ bf_pass' = bf_pass + 1
    /\ UNCHANGED <<graphVars, source, bf_pc, fwVars, genVars>>

\* lines 33-35
BFRaise ==
    /\ bf_pc = "relax"
    /\ bf_pass >= PassCount(num_nodes)
    /\ \E i \in 1 .. Len(order) :
          Relaxable(distances, EdgeTriples(weight, order)[i])
    /\ bf_pc' = "raised"
    /\ UNCHANGED <<graphVars, source, distances, bf_pass, fwVars, genVars>>

\* lines 33-37
BFReturn ==
    /\ bf_pc = "relax"
    /\ bf_pass >= PassCount(num_nodes)
    /\ \A i \in 1 .. Len(order) :
          ~Relaxable(distances, EdgeTriples(weight, order)[i])
    /\ bf_pc' = "returned"
    /\ UNCHANGED <<graphVars, source, distances, bf_pass, fwVars, genVars>>

---------------------------------------------------------------------------
(* floyd_warshall                                                          *)

\* lines 51-58: the edge weights are written first, the diagonal after them
FWInitialNoDiag(n, w) ==
    [i \in Nodes(n) |-> [j \in Nodes(n) |->
        IF <<i, j>> \in DOMAIN w THEN w[<<i, j>>] ELSE Inf]]
FWInitial(n, w) ==
    [i \in Nodes(n) |-> [j \in Nodes(n) |->
        IF i = j THEN 0
        ELSE IF <<i, j>> \in DOMAIN w THEN w[<<i, j>>] ELSE Inf]]

\* line 63
FWCell(d, k, i, j) ==
    [d EXCEPT ![i][j] = Min2(d[i][j], Plus(d[i][k], d[k][j]))]

\* lines 61-63: the i and j loops for one k, in place; c counts the cells done
RECURSIVE FWInner(_, _, _, _)
FWInner(d, k, c, n) ==
    IF c >= n * n THEN d
    ELSE FWInner(FWCell(d, k, c \div n, c % n), k, c + 1, n)

\* line 60: range(num_nodes)
OuterCountShort(n) == n - 1
OuterCount(n) == n

RECURSIVE FWFrom(_, _, _)
FWFrom(d, k, n) ==
    IF k >= OuterCount(n) THEN d ELSE FWFrom(FWInner(d, k, 0, n), k + 1, n)

\* the whole function
floyd_warshall(n, w) == FWFrom(FWInitial(n, w), 0, n)

FWStart ==
    /\ fw_pc = "start"
    /\ fw_dist' = FWInitial(num_nodes, weight)
    /\ fw_k' = 0
    /\ fw_pc' = "loop"
    /\ UNCHANGED <<graphVars, bfVars, genVars>>

FWOuter ==
    /\ fw_pc = "loop"
    /\ fw_k < OuterCount(num_nodes)
    /\ fw_dist' = FWInner(fw_dist, fw_k, 0, num_nodes)
    /\ fw_k' = fw_k + 1
    /\ UNCHANGED <<graphVars, bfVars, fw_pc, genVars>>

FWReturn ==
    /\ fw_pc = "loop"
    /\ fw_k >= OuterCount(num_nodes)
    /\ fw_pc' = "returned"
    /\ UNCHANGED <<graphVars, bfVars, fw_dist, fw_k, genVars>>

---------------------------------------------------------------------------
(* gnp_random_connected_graph (draw = False)                               *)

\* line 93: the 0.5 of random.random() < 0.5, in hundredths
Half == 50
\* line 101: random.randint(-5, 20)
RandLo == -5
RandHi == 20

\* Outcomes of random.random() (a float in [0, 1)), in hundredths
RandomSamples == {0, 50, 99}
\* Outcomes of random.randint(RandLo, RandHi)
WeightSamples == {RandLo, RandHi}
\* Values of the completeness argument, in hundredths
Completenesses == {0, 50, 100}

\* line 94: random_edge[::-1]
Reversed(e) == <<e[2], e[1]>>

\* lines 87 and 90: the group of pairs (i, j), i < j, whose first coordinate is i
NodeEdges(i, n) == {<<i, j>> : j \in (i + 1) .. (n - 1)}

\* lines 92-94: the chosen pair, reversed when the draw r is below 0.5
MandatoryEdge(random_edge, r) ==
    IF r < Half THEN Reversed(random_edge) ELSE random_edge

\* lines 96-98: the pairs handed to add_edge by the completeness step
CompletenessEdgesEitherWay(node_edges, draws, c) ==
    {IF draws[e] = 0 THEN Reversed(e) ELSE e :
        e \in {x \in node_edges : draws[x] < c}}
CompletenessEdges(node_edges, draws, c) ==
    {e \in node_edges : draws[e] < c}

\* lines 95 and 98: everything one group hands to add_edge
GroupEdgesNoMandatory(first, added) == added
GroupEdges(first, added) == {first} \cup added

\* G.add_edge(u, v): a DiGraph stores the arc u -> v; a Graph stores the
\* undirected edge, which G.edges() reports from its first-inserted endpoint,
\* the smaller one after add_nodes_from(range(n))
StoreEdge(e, dir) == IF dir \/ e[1] <= e[2] THEN e ELSE Reversed(e)

\* lines 83-88
GenStart ==
    /\ g_pc = "start"
    /\ g_nodes' = Nodes(g_n)
    /\ g_edges' = {}
    /\ g_group' = 0
    /\ g_pc' = "groups"
    /\ UNCHANGED <<graphVars, bfVars, fwVars, g_directed, g_n, g_completeness,
                   g_weight, g_comp>>

\* lines 90-98: one iteration of the loop over the groups
GenGroup ==
    /\ g_pc = "groups"
    /\ g_group <= g_n - 2
    /\ \E random_edge \in NodeEdges(g_group, g_n), r \in RandomSamples,
          draws \in [NodeEdges(g_group, g_n) -> RandomSamples] :
          LET first == MandatoryEdge(random_edge, r)
              added == CompletenessEdges(NodeEdges(g_group, g_n), draws,
                                         g_completeness)
              all   == GroupEdges(first, added)
          IN  /\ g_edges' = g_edges \cup {StoreEdge(e, g_directed) : e \in all}
              /\ g_nodes' = g_nodes \cup {e[1] : e \in all} \cup {e[2] : e \in all}
              /\ g_comp' = g_comp \cup added
    /\ g_group' = g_group + 1
    /\ UNCHANGED <<graphVars, bfVars, fwVars, g_directed, g_n, g_completeness,
                   g_weight, g_pc>>

\* lines 100-101 and 121: every edge gets its weight and G is returned
GenWeights ==
    /\ g_pc = "groups"
    /\ g_group > g_n - 2
    /\ g_weight' \in [g_edges -> WeightSamples]
    /\ g_pc' = "done"
    /\ UNCHANGED <<graphVars, bfVars, fwVars, g_directed, g_n, g_completeness,
                   g_nodes, g_edges, g_group, g_comp>>

---------------------------------------------------------------------------
(* Specifications: each runs one function on every input within the bounds *)

BFIdle  == source = 0 /\ distances = <<>> /\ bf_pass = 0 /\ bf_pc = "idle"
FWIdle  == fw_dist = <<>> /\ fw_k = 0 /\ fw_pc = "idle"
GenIdle ==
    /\ g_directed = FALSE /\ g_n = 0 /\ g_completeness = 0
    /\ g_nodes = {} /\ g_edges = {} /\ g_weight = <<>>
    /\ g_group = 0 /\ g_comp = {} /\ g_pc = "idle"

\* bellman_ford(graph, source); source num_nodes stands for a node not in the graph
InitBF ==
    /\ GraphInit(MaxEdgesBF)
    /\ order \in Perms(DOMAIN weight)
    /\ source \in 0 .. num_nodes
    /\ distances = <<>> /\ bf_pass = 0 /\ bf_pc = "start"
    /\ FWIdle /\ GenIdle

NextBF == BFInit \/ BFPass \/ BFRaise \/ BFReturn

SpecBF == InitBF /\ [][NextBF]_vars

\* floyd_warshall(graph)
InitFW ==
    /\ GraphInit(MaxEdgesFW)
    /\ order = <<>>
    /\ BFIdle /\ GenIdle
    /\ fw_dist = <<>> /\ fw_k = 0 /\ fw_pc = "start"

NextFW == FWStart \/ FWOuter \/ FWReturn

SpecFW == InitFW /\ [][NextFW]_vars

GraphIdle == directed = FALSE /\ num_nodes = 0 /\ weight = <<>> /\ order = <<>>

\* gnp_random_connected_graph(num_of_nodes, completeness, directed)
InitGen ==
    /\ GraphIdle /\ BFIdle /\ FWIdle
    /\ g_directed \in BOOLEAN
    /\ g_n \in 1 .. MaxNodes
    /\ g_completeness \in Completenesses
    /\ g_nodes = {} /\ g_edges = {} /\ g_weight = <<>>
    /\ g_group = 0 /\ g_comp = {} /\ g_pc = "start"

NextGen == GenStart \/ GenGroup \/ GenWeights

SpecGen == InitGen /\ [][NextGen]_vars

---------------------------------------------------------------------------
(* Graph-theoretic reference notions, independent of the two algorithms.   *)
(* A is a map from arcs <<u, v>> to weights.                               *)

\* The arcs a path may follow: a directed graph's edges in their direction,
\* an undirected graph's edges in either direction.
Trav(dir, w) ==
    IF dir THEN w
    ELSE [p \in DOMAIN w \cup {<<e[2], e[1]>> : e \in DOMAIN w} |->
            IF p \in DOMAIN w THEN w[p] ELSE w[<<p[2], p[1]>>]]

\* The simple paths (sequences of distinct nodes joined by arcs) that extend
\* a path of P by one arc
Extend(P, A) ==
    UNION {{Append(s, e[2]) :
               e \in {x \in DOMAIN A :
                         /\ x[1] = s[Len(s)]
                         /\ \A t \in 1 .. Len(s) : s[t] # x[2]}} : s \in P}

RECURSIVE Extensions(_, _, _)
Extensions(P, A, m) ==
    IF m <= 0 \/ P = {} THEN P ELSE P \cup Extensions(Extend(P, A), A, m - 1)

\* All simple paths that start at node i, the path <<i>> of no arc included
PathsFrom(i, A, n) == Extensions({<<i>>}, A, n - 1)

RECURSIVE PathWeightFrom(_, _, _)
PathWeightFrom(s, A, i) ==
    IF i >= Len(s) THEN 0 ELSE A[<<s[i], s[i + 1]>>] + PathWeightFrom(s, A, i + 1)

PathWeight(s, A) == PathWeightFrom(s, A, 1)

SetMin(S) == CHOOSE x \in S : \A y \in S : x <= y

\* Minimum weight of a path of P that ends at j and whose intermediate nodes
\* all lie in mid; Inf when there is none
ShortestAmong(P, j, A, mid) ==
    LET Q == {s \in P : s[Len(s)] = j /\ \A x \in 2 .. (Len(s) - 1) : s[x] \in mid}
    IN  IF Q = {} THEN Inf ELSE SetMin({PathWeight(s, A) : s \in Q})

\* Minimum weight of a simple path from i to j through mid; Inf when there is none
Shortest(i, j, A, n, mid) == ShortestAmong(PathsFrom(i, A, n), j, A, mid)

Reach(i, j, A, n) == \E s \in PathsFrom(i, A, n) : s[Len(s)] = j

\* Simple cycles through c, written as the path from c to the node before c
\* (a path of one node is a self-loop)
CyclesThrough(c, A, n) ==
    {s \in PathsFrom(c, A, n) : <<s[Len(s)], c>> \in DOMAIN A}

CycleWeight(s, A) == PathWeight(s, A) + A[<<s[Len(s)], s[1]>>]

NegCycleThrough(c, A, n) == \E s \in CyclesThrough(c, A, n) : CycleWeight(s, A) < 0

\* A negative simple cycle of at least two arcs through c
NegLongCycleThrough(c, A, n) ==
    \E s \in CyclesThrough(c, A, n) : Len(s) >= 2 /\ CycleWeight(s, A) < 0

\* A negative closed walk through i: i reaches a negative cycle and is reached back
NegWalkThrough(i, A, n) ==
    \E c \in Nodes(n) : Reach(i, c, A, n) /\ Reach(c, i, A, n) /\ NegCycleThrough(c, A, n)

NegCycleReachable(src, A, n) ==
    /\ src \in Nodes(n)
    /\ \E c \in Nodes(n) : Reach(src, c, A, n) /\ NegCycleThrough(c, A, n)

HasNegCycle(A, n) == \E c \in Nodes(n) : NegCycleThrough(c, A, n)

\* Cycles of the graph itself: in an undirected graph a cycle is a self-loop or
\* has at least three nodes (going along an edge and back is not a cycle)
GraphNegCycleThrough(c, dir, w, n) ==
    \E s \in CyclesThrough(c, Trav(dir, w), n) :
        (dir \/ Len(s) # 2) /\ CycleWeight(s, Trav(dir, w)) < 0

GraphNegCycleReachable(src, dir, w, n) ==
    /\ src \in Nodes(n)
    /\ \E c \in Nodes(n) :
          Reach(src, c, Trav(dir, w), n) /\ GraphNegCycleThrough(c, dir, w, n)

---------------------------------------------------------------------------
(* Claims about bellman_ford, checked under SpecBF                         *)

BFDone == bf_pc \in {"returned", "raised"}

C3_BellmanFordAgreesWithFloydWarshall ==
    (BFDone /\ source \in Nodes(num_nodes) /\ ~HasNegCycle(weight, num_nodes))
    => /\ bf_pc = "returned"
       /\ \A v \in Nodes(num_nodes) :
             distances[v] = floyd_warshall(num_nodes, weight)[source][v]

\* C3 witness: a returned run on a graph without negative cycle in which some
\* node is two edges away, over a negative edge, and another is unreachable.
C3_Witness ==
    /\ bf_pc = "returned"
    /\ source \in Nodes(num_nodes)
    /\ ~HasNegCycle(weight, num_nodes)
    /\ \E v \in Nodes(num_nodes) : distances[v] < 0
    /\ \E v \in Nodes(num_nodes) : distances[v] = Inf
    /\ \E e \in DOMAIN weight : e[1] # source /\ e[2] # source /\ e[1] # e[2]

\* C7 as stated: a source that is not a node of the graph never yields a
\* returned mapping.
C7_AsStated == (source \notin Nodes(num_nodes)) => bf_pc # "returned"

---------------------------------------------------------------------------
(* Claims about floyd_warshall, checked under SpecFW                       *)

NoSelfLoops(w) == \A e \in DOMAIN w : e[1] # e[2]

\* C5 as stated, on the directed graphs without self-loops: in the returned
\* matrix, entry [i][i] is 0 when no negative cycle passes through i and below
\* 0 when one does.
C5_AsStated ==
    (fw_pc = "returned" /\ directed /\ NoSelfLoops(weight)) =>
        \A i \in Nodes(num_nodes) :
            IF GraphNegCycleThrough(i, directed, weight, num_nodes)
            THEN fw_dist[i][i] < 0
            ELSE fw_dist[i][i] = 0

\* C5 amended: in the returned matrix no diagonal entry is above 0, entry
\* [i][i] is 0 when i lies on no negative closed walk (i reaches no negative
\* cycle that reaches i back), and is below 0 when a negative cycle of at least
\* two edges passes through i, walks and cycles following each edge in its
\* enumerated direction.
C5_DiagonalAndNegativeCycles ==
    fw_pc = "returned" =>
        \A i \in Nodes(num_nodes) :
            /\ fw_dist[i][i] <= 0
            /\ ~NegWalkThrough(i, weight, num_nodes) => fw_dist[i][i] = 0
            /\ NegLongCycleThrough(i, weight, num_nodes) => fw_dist[i][i] < 0

\* C5 witness: a returned matrix with one node on a negative cycle of two or
\* more edges (entry below 0) and one node on no negative closed walk (entry 0).
C5_Witness ==
    /\ fw_pc = "returned"
    /\ \E i \in Nodes(num_nodes) :
          NegLongCycleThrough(i, weight, num_nodes) /\ fw_dist[i][i] < 0
    /\ \E i \in Nodes(num_nodes) :
          ~NegWalkThrough(i, weight, num_nodes) /\ fw_dist[i][i] = 0

\* The triangle inequality of a matrix
Triangle(d, n) ==
    \A i, j, k \in Nodes(n) : d[i][j] <= Plus(d[i][k], d[k][j])

\* C6 as stated: whatever the graph, the returned matrix satisfies
\* dist[i][j] <= dist[i][k] + dist[k][j] for all i, j, k.
C6_AsStated == fw_pc = "returned" => Triangle(fw_dist, num_nodes)

\* C6 amended: on a graph with no negative cycle the returned matrix
\* satisfies dist[i][j] <= dist[i][k] + dist[k][j] for all i, j, k.
C6_TriangleWithoutNegCycle ==
    (fw_pc = "returned" /\ ~HasNegCycle(weight, num_nodes))
    => Triangle(fw_dist, num_nodes)

\* C6 witness: a returned matrix of a graph with a negative edge and no
\* negative cycle, in which some entry comes from a two-edge path.
C6_Witness ==
    /\ fw_pc = "returned"
    /\ ~HasNegCycle(weight, num_nodes)
    /\ \E e \in DOMAIN weight : weight[e] < 0
    /\ \E i, j \in Nodes(num_nodes) :
          i # j /\ <<i, j>> \in DOMAIN weight /\ fw_dist[i][j] < weight[<<i, j>>]

---------------------------------------------------------------------------
(* Claims about gnp_random_connected_graph, checked under SpecGen          *)

\* C8: with directed = False, whatever num_of_nodes >= 1, completeness and the
\* random draws, the returned graph has the nodes 0..num_of_nodes-1 exactly and
\* any two of them are joined by a path of edges.
C8_UndirectedGraphIsConnected ==
    (g_pc = "done" /\ ~g_directed)
    => /\ g_nodes = Nodes(g_n)
       /\ \A u, v \in g_nodes : Reach(u, v, Trav(FALSE, g_weight), g_n)

\* C8 witness: a returned undirected graph on three or more nodes built with
\* completeness 0, so that it holds the one mandatory edge of each group only.
C8_Witness ==
    /\ g_pc = "done"
    /\ ~g_directed
    /\ g_n >= 3
    /\ g_completeness = 0
    /\ Cardinality(g_edges) = g_n - 1

\* C9 as stated: with directed = True and a completeness above 0, for every
\* pair (i, j) of the group about to be processed, the completeness step can
\* add the edge i -> j and can add the edge j -> i.
C9_AsStated ==
    (g_pc = "groups" /\ g_group <= g_n - 2 /\ g_directed /\ g_completeness > 0)
    => \A e \in NodeEdges(g_group, g_n) :
          /\ ENABLED (GenGroup /\ e \in g_comp')
          /\ ENABLED (GenGroup /\ Reversed(e) \in g_comp')

\* C9 amended: with directed = True the completeness step only ever adds a
\* pair (i, j), i < j, as the edge i -> j; an edge j -> i can only be the one
\* mandatory edge of group i, reversed, so at most one edge enters i from a
\* higher node.
C9_OnlyMandatoryEdgeReversed ==
    g_directed
    => /\ \A e \in g_comp : e[1] < e[2]
       /\ \A i \in Nodes(g_n) :
             Cardinality({e \in g_edges : e[2] = i /\ e[1] > i}) <= 1

\* C9 witness: a returned directed graph in which the completeness step has
\* added an edge and a mandatory edge was reversed.
C9_Witness ==
    /\ g_pc = "done"
    /\ g_directed
    /\ g_comp # {}
    /\ \E e \in g_edges : e[1] > e[2]

=============================================================================
